---- MODULE Spec2Model ----
(***************************************************************************)
(* MusicCat song library: metadata ingestion (refresh_song_list and        *)
(* _import_metadata), keyword search, identifier resolution of the legacy  *)
(* module, and the pause/unpause wrapper around the Winamp player.         *)
(***************************************************************************)
EXTENDS Integers, Sequences, FiniteSets, TLC

VARIABLES
    library,                        \* metadata documents under library_path, in os.walk order
    disable_nobrstm_exception,      \* self.disable_nobrstm_exception
    disable_id_conflict_exception,  \* self.disable_id_conflict_exception
    songs,                          \* self.songs: song id -> Song
    call,                           \* the last call made on the object: its name, its arguments, the catalog before it
    raised,                         \* the exception the last call propagated, "none" if it returned
    log,                            \* refresh_song_list: per document, the exception caught ("none" if it loaded)
    result,                         \* the value the last search returned
    paused,                         \* self.paused
    winamp,                         \* the Winamp player behind self.winamp
    minimum_autocorrect_ratio,      \* legacy self.minimum_autocorrect_ratio
    minimum_match_ratio             \* legacy self.minimum_match_ratio

vars == <<library, disable_nobrstm_exception, disable_id_conflict_exception, songs,
          call, raised, log, result, paused, winamp,
          minimum_autocorrect_ratio, minimum_match_ratio>>

-----------------------------------------------------------------------------
(* Bounds *)

\* documents in the library walk
MaxDocs == 2
\* song entries declared by all documents of the library together
MaxSongs == 3
\* keywords of one search
MaxKeywords == 2
\* characters of a song id given to the legacy search
MaxTokenLen == 2

-----------------------------------------------------------------------------
(* Python dictionaries: a function from the keys present to their values *)

Put(d, k, v) == [j \in DOMAIN d \cup {k} |-> IF j = k THEN v ELSE d[j]]

Pop(d, k) == [j \in DOMAIN d \ {k} |-> d[j]]

EmptyDict == [k \in {} |-> k]

\* dict.update(other)
Update(d, other) ==
    [j \in DOMAIN d \cup DOMAIN other |-> IF j \in DOMAIN other THEN other[j] ELSE d[j]]

\* the orders in which a dictionary of the keys S may be iterated
Orders(S) ==
    { o \in [1..Cardinality(S) -> S] : \A i, j \in DOMAIN o : i # j => o[i] # o[j] }

-----------------------------------------------------------------------------
(* Ratios: a pair <<numerator, denominator>> with a positive denominator *)

RatLess(p, q) == p[1] * q[2] < q[1] * p[2]

RatEq(p, q) == p[1] * q[2] = q[1] * p[2]

\* the greatest common divisor of a natural number and a positive one
RECURSIVE GCD(_, _)
GCD(m, n) == IF m = 0 THEN n ELSE GCD(n % m, m)

\* a ratio in lowest terms, so that sums of many ratios stay small
Reduced(p) == LET g == GCD(p[1], p[2]) IN <<p[1] \div g, p[2] \div g>>

RatAdd(p, q) == Reduced(<<p[1] * q[2] + q[1] * p[2], p[2] * q[2]>>)

RatMul(p, q) == Reduced(<<p[1] * q[1], p[2] * q[2]>>)

\* max(p, q) of Python: the first of two equal arguments
RatMax(p, q) == IF RatLess(p, q) THEN q ELSE p

-----------------------------------------------------------------------------
(* Strings are character sequences *)

\* str.lower(), on the letters the titles and keywords use
LowerChar(c) == IF c = "A" THEN "a" ELSE IF c = "B" THEN "b" ELSE c

Lower(s) == [i \in 1..Len(s) |-> LowerChar(s[i])]

\* the words of s from position i on, word being the word read so far
RECURSIVE SplitFrom(_, _, _)
SplitFrom(s, i, word) ==
    LET done == IF word = <<>> THEN {} ELSE {word}
    IN  IF i > Len(s) THEN done
        ELSE IF s[i] = " " THEN done \cup SplitFrom(s, i + 1, <<>>)
        ELSE SplitFrom(s, i + 1, Append(word, s[i]))

\* set(s.split())
Words(s) == SplitFrom(s, 1, <<>>)

Min(a, b) == IF a < b THEN a ELSE b

\* a row of the edit-distance table of a and b, filled from the row before it:
\* an insertion or a deletion costs 1, a substitution 2
RECURSIVE FillRow(_, _, _, _)
FillRow(row, prev, c, b) ==
    IF Len(row) = Len(b) + 1 THEN row
    ELSE LET j == Len(row)
             subst == prev[j] + (IF c = b[j] THEN 0 ELSE 2)
         IN  FillRow(Append(row, Min(Min(prev[j + 1] + 1, row[j] + 1), subst)), prev, c, b)

RECURSIVE EditRows(_, _, _, _)
EditRows(prev, a, b, i) ==
    IF i > Len(a) THEN prev
    ELSE EditRows(FillRow(<<prev[1] + 1>>, prev, a[i], b), a, b, i + 1)

EditDistance(a, b) == EditRows([j \in 1..(Len(b) + 1) |-> j - 1], a, b, 1)[Len(b) + 1]

\* Levenshtein.ratio(a, b) = (len(a) + len(b) - distance) / (len(a) + len(b)),
\* and 1.0 for two empty strings
LevenshteinRatio(a, b) ==
    LET lensum == Len(a) + Len(b)
    IN  IF lensum = 0 THEN <<1, 1>> ELSE <<lensum - EditDistance(a, b), lensum>>

-----------------------------------------------------------------------------
(* The library on disk *)

\* audio file names a song entry may name; only the first exists in a game's directory
PresentFile == "theme.brstm"
MissingFile == "gone.brstm"

\* os.path.join(path, song["path"])
JoinPath(dir, name) == <<dir, name>>

\* os.path.isfile(fullpath)
IsFile(fullpath) == fullpath[2] = PresentFile

\* the song entries a document may hold: one with a single type, the same with
\* its audio file missing, one with a types list, and one lacking its title
SongEntries ==
    { [id |-> <<"a", "b">>, title |-> <<"t">>, path |-> PresentFile, type |-> "battle"],
      [id |-> <<"a", "b">>, title |-> <<"t">>, path |-> MissingFile, type |-> "battle"],
      [id |-> <<"a", "c">>, title |-> <<"t">>, path |-> PresentFile, types |-> <<"battle", "boss">>],
      [id |-> <<"a", "c">>, path |-> PresentFile, type |-> "battle"] }

\* the game fields of the metadata file in the d-th directory of the walk; the
\* file of an even directory declares no series
GameData(d) ==
    IF d % 2 = 1
    THEN [id |-> d, title |-> <<"g">>, platform |-> "gba", year |-> 2000, series |-> "s", path |-> "p"]
    ELSE [id |-> d, title |-> <<"g">>, platform |-> "gba", year |-> 2000, path |-> "p"]

\* the metadata files the d-th directory may hold that declare n songs
DocumentsAt(d, n) ==
    { [dir |-> d, yaml |-> "ok", gamedata |-> GameData(d), songs |-> s] :
          s \in [1..n -> SongEntries] }
    \cup
    (IF n = 0 THEN { [dir |-> d, yaml |-> "malformed", gamedata |-> EmptyDict, songs |-> <<>>] }
     ELSE {})

\* the libraries of exactly d documents declaring at most k songs together
RECURSIVE LibrariesOf(_, _)
LibrariesOf(d, k) ==
    IF d = 0 THEN { <<>> }
    ELSE UNION { { Append(lib, doc) : lib \in LibrariesOf(d - 1, k - n), doc \in DocumentsAt(d, n) } :
                     n \in 0..k }

Libraries == UNION { LibrariesOf(d, MaxSongs) : d \in 0..MaxDocs }

-----------------------------------------------------------------------------
(* Song = namedtuple("Song", ("id", "title", "path", "types", "game", "fullpath")) *)

SongFields == {"id", "title", "path", "types", "game", "fullpath"}

GameFields == {"id", "title", "platform", "year", "series", "path"}

\* StoreSong with the song filed under its title instead of its id
StoreSongUnderTitle(catalog, newsong) == Put(catalog, newsong.title, newsong)

\* self.songs[newsong.id] = newsong
StoreSong(catalog, newsong) == Put(catalog, newsong.id, newsong)

\* lines 98-100: the series default and Game(**gamedata)
MakeGame(gamedata) ==
    IF "series" \notin DOMAIN gamedata THEN Put(gamedata, "series", "None") ELSE gamedata

\* lines 103-108: fullpath, game and the type -> types conversion of one entry
PrepareSong(doc, game, song) ==
    LET located == Put(Put(song, "fullpath", JoinPath(doc.dir, song.path)), "game", game)
    IN  IF "type" \in DOMAIN located
        THEN Put(Pop(located, "type"), "types", <<located.type>>)
        ELSE located

\* ImportSong with the check against self.songs left out, so that only the
\* check against newsongs guards the ids
ImportSongUnchecked(catalog, doc, game, song) ==
    LET newsongs == EmptyDict
    IN  IF "path" \notin DOMAIN song
        THEN [songs |-> catalog, raised |-> "KeyError"]
        ELSE LET newsong == PrepareSong(doc, game, song)
             IN  IF DOMAIN newsong # SongFields
                 THEN [songs |-> catalog, raised |-> "TypeError"]
                 ELSE IF newsong.id \in DOMAIN newsongs /\ ~disable_id_conflict_exception
                 THEN [songs |-> catalog, raised |-> "SongIdConflictError"]
                 ELSE IF ~IsFile(newsong.fullpath) /\ ~disable_nobrstm_exception
                 THEN [songs |-> catalog, raised |-> "FileNotFoundError"]
                 ELSE [songs |-> StoreSong(catalog, newsong), raised |-> "none"]

\* the body of the loop of _import_metadata for one song entry: the catalog
\* after it and the exception it raised
ImportSong(catalog, doc, game, song) ==
    LET newsongs == EmptyDict
    IN  IF "path" \notin DOMAIN song
        THEN [songs |-> catalog, raised |-> "KeyError"]
        ELSE LET newsong == PrepareSong(doc, game, song)
             IN  IF DOMAIN newsong # SongFields
                 THEN [songs |-> catalog, raised |-> "TypeError"]
                 ELSE IF newsong.id \in DOMAIN catalog /\ ~disable_id_conflict_exception
                 THEN [songs |-> catalog, raised |-> "SongIdConflictError"]
                 ELSE IF newsong.id \in DOMAIN newsongs /\ ~disable_id_conflict_exception
                 THEN [songs |-> catalog, raised |-> "SongIdConflictError"]
                 ELSE IF ~IsFile(newsong.fullpath) /\ ~disable_nobrstm_exception
                 THEN [songs |-> catalog, raised |-> "FileNotFoundError"]
                 ELSE [songs |-> StoreSong(catalog, newsong), raised |-> "none"]

\* the loop of _import_metadata from the i-th song entry on
RECURSIVE ImportSongsFrom(_, _, _, _)
ImportSongsFrom(catalog, doc, game, i) ==
    IF i > Len(doc.songs) THEN [songs |-> catalog, raised |-> "none"]
    ELSE LET step == ImportSong(catalog, doc, game, doc.songs[i])
         IN  IF step.raised # "none" THEN step
             ELSE ImportSongsFrom(step.songs, doc, game, i + 1)

\* _import_metadata(metafilename)
ImportMetadata(catalog, doc) ==
    IF doc.yaml # "ok" THEN [songs |-> catalog, raised |-> "YAMLError"]
    ELSE IF DOMAIN MakeGame(doc.gamedata) # GameFields
    THEN [songs |-> catalog, raised |-> "TypeError"]
    ELSE ImportSongsFrom(catalog, doc, MakeGame(doc.gamedata), 1)

\* the walk without the try/except: the first exception of an import ends it
RECURSIVE WalkFromUncaught(_, _, _, _)
WalkFromUncaught(catalog, caught, docs, i) ==
    IF i > Len(docs) THEN [songs |-> catalog, log |-> caught, raised |-> "none"]
    ELSE LET got == ImportMetadata(catalog, docs[i])
         IN  IF got.raised # "none"
             THEN [songs |-> got.songs, log |-> Append(caught, got.raised), raised |-> got.raised]
             ELSE WalkFromUncaught(got.songs, Append(caught, got.raised), docs, i + 1)

\* the walk of refresh_song_list from the i-th document on, with the try/except
\* around each import
RECURSIVE WalkFrom(_, _, _, _)
WalkFrom(catalog, caught, docs, i) ==
    IF i > Len(docs) THEN [songs |-> catalog, log |-> caught, raised |-> "none"]
    ELSE LET got == ImportMetadata(catalog, docs[i])
         IN  WalkFrom(got.songs, Append(caught, got.raised), docs, i + 1)

-----------------------------------------------------------------------------
(* search(keywords, cutoff) *)

\* subratio2 * 0.8
GameTitleWeight == <<8, 10>>

\* if subratio > 0.7
NoiseFloor == <<7, 10>>

\* cutoff=0.3
DefaultCutoff == <<3, 10>>

\* the songs searched, each a pair of its title and the title of its game: a
\* title of two words with capitals, one long word in a game of two words or of
\* a blank title, and no title at all
TitledSongs ==
    { << <<"A", "b", " ", "b", "c">>, <<"A", "b", " ", "c">> >>,
      << <<"a", "b", "c", "d", "e", "f", "g", "x", "y", "z">>, <<"A", "b", " ", "c">> >>,
      << <<"a", "b", "c", "d", "e", "f", "g", "x", "y", "z">>, <<" ">> >>,
      << <<>>, <<"A", "b", " ", "c">> >> }

SongTitles == { pair[1] : pair \in TitledSongs }

GameTitles == { pair[2] : pair \in TitledSongs }

\* the keywords searched for
Keywords ==
    { <<"A", "b">>,
      <<"a", "b", "c", "d", "e", "f", "g", "h", "i", "j">> }

\* the words search compares, and their ratios computed once
SearchWords ==
    UNION { Words(Lower(t)) : t \in SongTitles \cup GameTitles } \cup { Lower(k) : k \in Keywords }

RECURSIVE RatioTableOf(_)
RatioTableOf(pairs) ==
    IF pairs = {} THEN <<>>
    ELSE LET pair == CHOOSE p \in pairs : TRUE
         IN  (pair :> LevenshteinRatio(pair[1], pair[2])) @@ RatioTableOf(pairs \ {pair})

RatioTable == RatioTableOf(SearchWords \X SearchWords)

\* Levenshtein.ratio(a, b)
Ratio(a, b) ==
    IF a \in SearchWords /\ b \in SearchWords THEN RatioTable[<<a, b>>]
    ELSE LevenshteinRatio(a, b)

\* the condition under which a subratio is added to the ratio, with >= for >
CountsFromFloor(subratio) == ~RatLess(subratio, NoiseFloor)

\* if subratio > 0.7
Counts(subratio) == RatLess(NoiseFloor, subratio)

\* max(Levenshtein.ratio(keyword, word) for word in haystack) of a haystack
\* that is not empty
BestRatio(keyword, haystack) ==
    LET ratios == { Ratio(keyword, word) : word \in haystack }
    IN  CHOOSE r \in ratios : \A q \in ratios : ~RatLess(r, q)

\* the loop over the keywords from the i-th on, for one song; max() of an empty
\* haystack raises ValueError
RECURSIVE AddKeywordsFrom(_, _, _, _, _)
AddKeywordsFrom(ratio, haystack1, haystack2, keywords, i) ==
    IF i > Len(keywords) THEN [raised |-> "none", ratio |-> ratio]
    ELSE IF haystack1 = {} \/ haystack2 = {} THEN [raised |-> "ValueError", ratio |-> ratio]
    ELSE LET keyword == Lower(keywords[i])
             subratio1 == BestRatio(keyword, haystack1)
             subratio2 == BestRatio(keyword, haystack2)
             subratio == RatMax(subratio1, RatMul(subratio2, GameTitleWeight))
         IN  AddKeywordsFrom(IF Counts(subratio) THEN RatAdd(ratio, subratio) ELSE ratio,
                             haystack1, haystack2, keywords, i + 1)

\* the body of the loop over the songs: the ratio of one song, or the exception
\* its computation raises
SongRatio(song, keywords) ==
    LET num_keywords == Len(keywords)
        haystack1 == Words(Lower(song.title))
        haystack2 == Words(Lower(song.game.title))
        summed == AddKeywordsFrom(<<0, 1>>, haystack1, haystack2, keywords, 1)
    IN  IF summed.raised # "none" THEN summed
        ELSE IF num_keywords = 0 THEN [raised |-> "ZeroDivisionError", ratio |-> summed.ratio]
        ELSE [raised |-> "none", ratio |-> <<summed.ratio[1], summed.ratio[2] * num_keywords>>]

\* sorted(results, key=lambda s: s[1], reverse=True): a stable sort, highest
\* match ratios first, equal ratios in the order of results
RECURSIVE Sorted(_)
Sorted(results) ==
    IF results = <<>> THEN <<>>
    ELSE LET rest == Sorted(Tail(results))
             item == Head(results)
             after == { n \in 0..Len(rest) : \A m \in 1..n : RatLess(item[2], rest[m][2]) }
             at == CHOOSE n \in after : \A m \in after : m <= n
         IN  SubSeq(rest, 1, at) \o <<item>> \o SubSeq(rest, at + 1, Len(rest))

\* the loop over self.songs.values(), iterated in order, from the i-th song on
RECURSIVE ScanFrom(_, _, _, _, _, _)
ScanFrom(results, catalog, order, keywords, cutoff, i) ==
    IF i > Len(order) THEN [raised |-> "none", result |-> Sorted(results)]
    ELSE LET song == catalog[order[i]]
             got == SongRatio(song, keywords)
         IN  IF got.raised # "none" THEN [raised |-> got.raised, result |-> <<>>]
             ELSE ScanFrom(IF RatLess(cutoff, got.ratio) THEN Append(results, <<song, got.ratio>>)
                           ELSE results,
                           catalog, order, keywords, cutoff, i + 1)

\* search(keywords, cutoff) over the catalog iterated in order
Search(catalog, order, keywords, cutoff) == ScanFrom(<<>>, catalog, order, keywords, cutoff, 1)

\* the keyword lists searched for
KeywordLists == UNION { [1..n -> Keywords] : n \in 0..MaxKeywords }

\* the cutoffs searched with: the default, and one that a ratio of 1.0 and a
\* ratio of 0 of two keywords meet exactly
Cutoffs == { DefaultCutoff, <<1, 2>> }

\* the id of the song of the d-th directory: d letters
TitledId(d) == [i \in 1..d |-> "a"]

\* the metadata files the d-th directory may hold, of one titled song each
TitledDocumentsAt(d) ==
    { [dir |-> d, yaml |-> "ok",
       gamedata |-> [id |-> d, title |-> g, platform |-> "gba", year |-> 2000, path |-> "p"],
       songs |-> << [id |-> TitledId(d), title |-> t, path |-> PresentFile, type |-> "battle"] >>] :
          <<t, g>> \in TitledSongs }

\* the libraries of exactly d such documents
RECURSIVE TitledLibrariesOf(_)
TitledLibrariesOf(d) ==
    IF d = 0 THEN { <<>> }
    ELSE { Append(lib, doc) : lib \in TitledLibrariesOf(d - 1), doc \in TitledDocumentsAt(d) }

TitledLibraries == UNION { TitledLibrariesOf(d) : d \in 0..MaxDocs }

-----------------------------------------------------------------------------
(* The legacy module musiccat.py: import_metadata and search(songid) *)

\* the loop of the legacy import_metadata from the i-th song entry on, filling
\* newsongs; an entry without id or path raises KeyError
RECURSIVE LegacyStageFrom(_, _, _)
LegacyStageFrom(newsongs, doc, i) ==
    IF i > Len(doc.songs) THEN [newsongs |-> newsongs, raised |-> "none"]
    ELSE LET song == doc.songs[i]
         IN  IF "id" \notin DOMAIN song \/ "path" \notin DOMAIN song
             THEN [newsongs |-> newsongs, raised |-> "KeyError"]
             ELSE LET located == Put(Put(song, "fullpath", JoinPath(doc.dir, song.path)),
                                     "game", doc.gamedata)
                      stored == IF "type" \in DOMAIN located
                                THEN Put(Pop(located, "type"), "types", <<located.type>>)
                                ELSE located
                  IN  LegacyStageFrom(Put(newsongs, song.id, stored), doc, i + 1)

\* the legacy import_metadata(metafilename): the songs are applied to self.songs
\* after all of them were read
LegacyImportMetadata(catalog, doc) ==
    IF doc.yaml # "ok" THEN [songs |-> catalog, raised |-> "YAMLError"]
    ELSE IF "id" \notin DOMAIN doc.gamedata \/ "platform" \notin DOMAIN doc.gamedata
    THEN [songs |-> catalog, raised |-> "KeyError"]
    ELSE LET staged == LegacyStageFrom(EmptyDict, doc, 1)
         IN  IF staged.raised # "none" THEN [songs |-> catalog, raised |-> staged.raised]
             ELSE [songs |-> Update(catalog, staged.newsongs), raised |-> "none"]

\* the walk of the legacy refresh_song_list from the i-th document on
RECURSIVE LegacyWalkFrom(_, _, _, _)
LegacyWalkFrom(catalog, caught, docs, i) ==
    IF i > Len(docs) THEN [songs |-> catalog, log |-> caught, raised |-> "none"]
    ELSE LET got == LegacyImportMetadata(catalog, docs[i])
         IN  LegacyWalkFrom(got.songs, Append(caught, got.raised), docs, i + 1)

\* the loop of the legacy search over the keys of self.songs, from the i-th on
RECURSIVE BestMatchFrom(_, _, _, _)
BestMatchFrom(best, songid, order, i) ==
    IF i > Len(order) THEN best
    ELSE LET ratio == Ratio(songid, order[i])
         IN  BestMatchFrom(IF RatLess(best.ratio, ratio)
                           THEN [ratio |-> ratio, match |-> {order[i]}]
                           ELSE best,
                           songid, order, i + 1)

\* the legacy search(songid) over the catalog iterated in order: the exception
\* raised, the song returned and the match the exception carries
LegacySearch(catalog, order, songid) ==
    IF songid \in DOMAIN catalog
    THEN [raised |-> "none", song |-> {catalog[songid]}, suggestion |-> {}]
    ELSE LET best == BestMatchFrom([ratio |-> <<0, 1>>, match |-> {}], songid, order, 1)
         IN  IF RatLess(best.ratio, minimum_autocorrect_ratio)
             THEN [raised |-> "BadMatchError", song |-> {}, suggestion |-> best.match]
             ELSE IF RatLess(best.ratio, minimum_match_ratio)
             THEN [raised |-> "NoMatchError", song |-> {}, suggestion |-> {}]
             ELSE [raised |-> "none", song |-> { catalog[k] : k \in best.match }, suggestion |-> {}]

\* the ratios a caller may set, the first below the second
ThresholdPairs == { << <<3, 10>>, <<6, 10>> >>, << <<6, 10>>, <<8, 10>> >> }

\* the song ids searched for: the character sequences of at most MaxTokenLen letters
Tokens == UNION { [1..n -> {"a", "b", "c"}] : n \in 1..MaxTokenLen }

-----------------------------------------------------------------------------
(* The Winamp player, as the comments of pause, unpause and _play_file describe it *)

\* winamp.Winamp(): nothing loaded; restarted records that the last command
\* started a song that was playing again from its beginning
WinampIdle == [status |-> "stopped", song |-> <<>>, restarted |-> FALSE]

\* winamp.stop()
WinampStop(w) == [w EXCEPT !.status = "stopped", !.restarted = FALSE]

\* winamp.clearPlaylist()
WinampClearPlaylist(w) == [w EXCEPT !.song = <<>>]

\* subprocess.Popen('"winamp_path" "songfile"'): Winamp loads the file and plays it
WinampOpen(w, songfile) == [status |-> "playing", song |-> songfile, restarted |-> FALSE]

\* winamp.pause(): "Pauses the current song. Unpauses if already paused"
WinampPause(w) ==
    IF w.status = "playing" THEN [w EXCEPT !.status = "paused", !.restarted = FALSE]
    ELSE IF w.status = "paused" THEN [w EXCEPT !.status = "playing", !.restarted = FALSE]
    ELSE [w EXCEPT !.restarted = FALSE]

\* winamp.play(): resumes a paused song; "will restart the song from the
\* beginning if not paused"
WinampPlay(w) ==
    IF w.status = "paused" THEN [w EXCEPT !.status = "playing", !.restarted = FALSE]
    ELSE IF w.song = <<>> THEN [w EXCEPT !.restarted = FALSE]
    ELSE [w EXCEPT !.status = "playing", !.restarted = (w.status = "playing")]

\* _play_file(songfile)
PlayFile(w, songfile) == WinampOpen(WinampClearPlaylist(WinampStop(w)), songfile)

\* the song ids play_song is called with: the ids of the library and an unknown one
PlayIds == { <<"a", "b">>, <<"a", "c">>, <<"x">> }

-----------------------------------------------------------------------------
(* State *)

NoCall == [name |-> "init", args |-> <<>>, before |-> EmptyDict]

\* MusicCat(library_path, winamp_path, ..., disable_auto_load=True): nothing loaded yet
Fresh ==
    /\ songs = EmptyDict
    /\ call = NoCall
    /\ raised = "none"
    /\ log = <<>>
    /\ result = <<>>
    /\ paused = FALSE
    /\ winamp = WinampIdle

Init ==
    /\ library \in Libraries
    /\ disable_nobrstm_exception \in BOOLEAN
    /\ disable_id_conflict_exception \in BOOLEAN
    /\ minimum_autocorrect_ratio = <<3, 10>>
    /\ minimum_match_ratio = <<8, 10>>
    /\ Fresh

\* refresh_song_list()
refresh_song_list ==
    LET walked == WalkFrom(EmptyDict, <<>>, library, 1)
    IN  /\ songs' = walked.songs
        /\ log' = walked.log
        /\ raised' = walked.raised
        /\ call' = [name |-> "refresh_song_list", args |-> <<>>, before |-> songs]
        /\ UNCHANGED <<library, disable_nobrstm_exception, disable_id_conflict_exception,
                       result, paused, winamp, minimum_autocorrect_ratio, minimum_match_ratio>>

\* _import_metadata(metafilename) on the i-th document of the library
_import_metadata(i) ==
    LET got == ImportMetadata(songs, library[i])
    IN  /\ songs' = got.songs
        /\ raised' = got.raised
        /\ call' = [name |-> "_import_metadata", args |-> <<i>>, before |-> songs]
        /\ UNCHANGED <<library, disable_nobrstm_exception, disable_id_conflict_exception,
                       log, result, paused, winamp, minimum_autocorrect_ratio, minimum_match_ratio>>

\* play_song(song_id)
play_song(song_id) ==
    /\ IF song_id \notin DOMAIN songs
       THEN raised' = "NoMatchError" /\ winamp' = winamp
       ELSE raised' = "none" /\ winamp' = PlayFile(winamp, songs[song_id].fullpath)
    /\ call' = [name |-> "play_song", args |-> <<song_id>>, before |-> songs]
    /\ UNCHANGED <<library, disable_nobrstm_exception, disable_id_conflict_exception, songs,
                   log, result, paused, minimum_autocorrect_ratio, minimum_match_ratio>>

\* pause()
pause ==
    /\ winamp' = WinampPause(winamp)
    /\ paused' = TRUE
    /\ raised' = "none"
    /\ call' = [name |-> "pause", args |-> <<>>, before |-> songs]
    /\ UNCHANGED <<library, disable_nobrstm_exception, disable_id_conflict_exception, songs,
                   log, result, minimum_autocorrect_ratio, minimum_match_ratio>>

\* unpause()
unpause ==
    /\ IF paused
       THEN winamp' = WinampPlay(winamp) /\ paused' = FALSE
       ELSE winamp' = [winamp EXCEPT !.restarted = FALSE] /\ paused' = paused
    /\ raised' = "none"
    /\ call' = [name |-> "unpause", args |-> <<>>, before |-> songs]
    /\ UNCHANGED <<library, disable_nobrstm_exception, disable_id_conflict_exception, songs,
                   log, result, minimum_autocorrect_ratio, minimum_match_ratio>>

Next ==
    \/ refresh_song_list
    \/ \E i \in DOMAIN library : _import_metadata(i)

Spec == Init /\ [][Next]_vars

\* search(keywords, cutoff)
search(keywords, cutoff) ==
    \E order \in Orders(DOMAIN songs) :
        \E got \in { Search(songs, order, keywords, cutoff) } :
            /\ result' = got.result
            /\ raised' = got.raised
            /\ call' = [name |-> "search", args |-> <<keywords, cutoff>>, before |-> songs]
            /\ UNCHANGED <<library, disable_nobrstm_exception, disable_id_conflict_exception,
                           songs, log, paused, winamp,
                           minimum_autocorrect_ratio, minimum_match_ratio>>

\* MusicCat(library_path, winamp_path) over a library of titled songs: the
\* constructor has loaded the library
InitSearch ==
    /\ library \in TitledLibraries
    /\ disable_nobrstm_exception = FALSE
    /\ disable_id_conflict_exception = FALSE
    /\ minimum_autocorrect_ratio = <<3, 10>>
    /\ minimum_match_ratio = <<8, 10>>
    /\ songs = WalkFrom(EmptyDict, <<>>, library, 1).songs
    /\ log = WalkFrom(EmptyDict, <<>>, library, 1).log
    /\ call = [name |-> "refresh_song_list", args |-> <<>>, before |-> EmptyDict]
    /\ raised = "none"
    /\ result = <<>>
    /\ paused = FALSE
    /\ winamp = WinampIdle

NextSearch == \E keywords \in KeywordLists, cutoff \in Cutoffs : search(keywords, cutoff)

SpecSearch == InitSearch /\ [][NextSearch]_vars

\* the legacy refresh_song_list(root_path)
legacy_refresh_song_list ==
    LET walked == LegacyWalkFrom(EmptyDict, <<>>, library, 1)
    IN  /\ songs' = walked.songs
        /\ log' = walked.log
        /\ raised' = walked.raised
        /\ call' = [name |-> "refresh_song_list", args |-> <<>>, before |-> songs]
        /\ UNCHANGED <<library, disable_nobrstm_exception, disable_id_conflict_exception,
                       result, paused, winamp, minimum_autocorrect_ratio, minimum_match_ratio>>

\* the legacy search(songid)
legacy_search(songid) ==
    \E order \in Orders(DOMAIN songs) :
        LET got == LegacySearch(songs, order, songid)
        IN  /\ result' = [song |-> got.song, suggestion |-> got.suggestion]
            /\ raised' = got.raised
            /\ call' = [name |-> "search", args |-> <<songid>>, before |-> songs]
            /\ UNCHANGED <<library, disable_nobrstm_exception, disable_id_conflict_exception,
                           songs, log, paused, winamp,
                           minimum_autocorrect_ratio, minimum_match_ratio>>

\* the legacy MusicCat, with the two ratios set by its caller
InitLegacy ==
    /\ library \in Libraries
    /\ disable_nobrstm_exception = FALSE
    /\ disable_id_conflict_exception = FALSE
    /\ \E pair \in ThresholdPairs :
           minimum_autocorrect_ratio = pair[1] /\ minimum_match_ratio = pair[2]
    /\ Fresh

NextLegacy ==
    \/ legacy_refresh_song_list
    \/ \E songid \in Tokens : legacy_search(songid)

SpecLegacy == InitLegacy /\ [][NextLegacy]_vars

\* the player: the catalog is loaded once or more, then songs are played,
\* paused and unpaused
NextPlayer ==
    \/ refresh_song_list
    \/ \E song_id \in PlayIds : play_song(song_id)
    \/ pause
    \/ unpause

SpecPlayer == Init /\ [][NextPlayer]_vars

-----------------------------------------------------------------------------
(* Ingestion: what the claims speak about *)

\* the document the last _import_metadata call was given
ImportedDoc == library[call.args[1]]

\* an entry Song(**song) accepts: id, title, path and one of type and types
WellFormed(song) ==
    DOMAIN song \in { {"id", "title", "path", "type"}, {"id", "title", "path", "types"} }

DeclaredIds(doc) == { doc.songs[j].id : j \in DOMAIN doc.songs }

\* the j-th entry of doc passes the construction and the file check
Storable(doc, j) ==
    /\ WellFormed(doc.songs[j])
    /\ disable_nobrstm_exception \/ IsFile(JoinPath(doc.dir, doc.songs[j].path))

\* the id of the j-th entry of doc is in use: by the catalog the import started
\* from, or by an earlier song of the same document
UsedAt(doc, before, j) ==
    \/ doc.songs[j].id \in DOMAIN before
    \/ \E h \in 1..(j - 1) : doc.songs[h].id = doc.songs[j].id /\ Storable(doc, h)

\* an entry of doc before the j-th one stops the import
FailsBefore(doc, before, j) ==
    \E h \in 1..(j - 1) :
        \/ ~Storable(doc, h)
        \/ ~disable_id_conflict_exception /\ UsedAt(doc, before, h)

\* a document every entry of which passes the construction and the file check
CleanDoc(doc) ==
    /\ doc.yaml = "ok"
    /\ \A j \in DOMAIN doc.songs :
           WellFormed(doc.songs[j]) /\ IsFile(JoinPath(doc.dir, doc.songs[j].path))

\* C1: with id conflicts skipped with a warning, after a refresh over two clean
\* documents that declare the same id the catalog holds the song of the document
\* walked first under that id, and every other song of both documents.
C1_FirstDuplicateKept ==
    (call.name = "refresh_song_list" /\ disable_id_conflict_exception) =>
        \A d1, d2 \in DOMAIN library :
            (d1 < d2 /\ CleanDoc(library[d1]) /\ CleanDoc(library[d2])) =>
                \A k \in DeclaredIds(library[d1]) \cap DeclaredIds(library[d2]) :
                    /\ k \in DOMAIN songs
                    /\ songs[k].game.id = library[d1].gamedata.id
                    /\ (DeclaredIds(library[d1]) \cup DeclaredIds(library[d2])) \subseteq DOMAIN songs

\* C3: every key of the catalog is the id of the song stored under it.
C3_KeysAreIds == \A k \in DOMAIN songs : songs[k].id = k

\* an import that raised part-way, leaving two songs in the catalog
C3_PartialImportReached ==
    /\ call.name = "_import_metadata"
    /\ raised # "none"
    /\ songs # call.before
    /\ Cardinality(DOMAIN songs) = 2

\* C5: with missing files skipped with a warning, after a refresh every song of
\* the catalog has a fullpath that is a file.
C5_MissingFileSongsSkipped ==
    (call.name = "refresh_song_list" /\ disable_nobrstm_exception) =>
        \A k \in DOMAIN songs : IsFile(songs[k].fullpath)

\* C6: refresh_song_list returns normally whatever the imports raise, has walked
\* every document, and the ids of every document whose import did not raise are
\* keys of the catalog.
C6_RefreshIsolatesFailures ==
    call.name = "refresh_song_list" =>
        /\ raised = "none"
        /\ Len(log) = Len(library)
        /\ \A i \in DOMAIN library :
               log[i] = "none" => DeclaredIds(library[i]) \subseteq DOMAIN songs

\* a refresh whose first document failed and whose second document loaded
C6_FailThenLoadReached ==
    /\ call.name = "refresh_song_list"
    /\ Len(library) = 2
    /\ log[1] # "none"
    /\ log[2] = "none"
    /\ library[2].songs # <<>>
    /\ DeclaredIds(library[2]) \subseteq DOMAIN songs

\* C7 as stated: with id conflicts fatal, the import of a document that declares
\* a song whose id is in use raises SongIdConflictError and leaves the entries
\* already stored unchanged.
C7_ConflictAlwaysRaised ==
    (/\ call.name = "_import_metadata"
     /\ ~disable_id_conflict_exception
     /\ ImportedDoc.yaml = "ok"
     /\ \E j \in DOMAIN ImportedDoc.songs :
            WellFormed(ImportedDoc.songs[j]) /\ UsedAt(ImportedDoc, call.before, j)) =>
        /\ raised = "SongIdConflictError"
        /\ \A k \in DOMAIN call.before : songs[k] = call.before[k]

\* C7 amended: with id conflicts fatal, the import of a document that declares a
\* song whose id is in use never returns normally and leaves the entry stored
\* under that id unchanged; the error is SongIdConflictError when the import
\* reaches that song, that is when the entry is well formed and no earlier entry
\* of the document has stopped the import.
C7_ConflictRaisedWhenReached ==
    (/\ call.name = "_import_metadata"
     /\ ~disable_id_conflict_exception
     /\ ImportedDoc.yaml = "ok") =>
        \A j \in DOMAIN ImportedDoc.songs :
            UsedAt(ImportedDoc, call.before, j) =>
                LET doc == ImportedDoc
                    id == doc.songs[j].id
                    reached == WellFormed(doc.songs[j]) /\ ~FailsBefore(doc, call.before, j)
                IN  /\ raised # "none"
                    /\ reached => raised = "SongIdConflictError"
                    /\ id \in DOMAIN call.before => (id \in DOMAIN songs /\ songs[id] = call.before[id])
                    /\ (reached /\ id \notin DOMAIN call.before) =>
                           /\ id \in DOMAIN songs
                           /\ songs[id].game.id = doc.gamedata.id
                           /\ \E h \in 1..(j - 1) :
                                  /\ doc.songs[h].id = id
                                  /\ songs[id].path = doc.songs[h].path

\* a conflict raised for an id that only an earlier song of the same document uses
C7_SameDocumentConflictReached ==
    /\ call.name = "_import_metadata"
    /\ ~disable_id_conflict_exception
    /\ raised = "SongIdConflictError"
    /\ \E j \in DOMAIN ImportedDoc.songs :
           /\ UsedAt(ImportedDoc, call.before, j)
           /\ ImportedDoc.songs[j].id \notin DOMAIN call.before
           /\ WellFormed(ImportedDoc.songs[j])
           /\ ~FailsBefore(ImportedDoc, call.before, j)

\* C9: an import that raises leaves the catalog as it was before the import.
C9_ImportAllOrNothing ==
    (call.name = "_import_metadata" /\ raised # "none") => songs = call.before

-----------------------------------------------------------------------------
(* The player: what the claim speaks about *)

\* C10: unpause() does nothing to a current song that is not paused: it never
\* starts a playing song again from its beginning, and the paused flag is set
\* only while the current song is paused in the player.
C10_UnpauseOnlyResumes ==
    winamp.song # <<>> =>
        /\ call.name = "unpause" => ~winamp.restarted
        /\ paused => winamp.status = "paused"

-----------------------------------------------------------------------------
(* search(keywords, cutoff): what the claims speak about *)

\* the best similarity of a keyword to a word of a title, both lower-cased
BestSimilarity(keyword, title) ==
    LET ratios == { Ratio(Lower(keyword), word) : word \in Words(Lower(title)) }
    IN  CHOOSE r \in ratios : \A q \in ratios : ~RatLess(r, q)

\* max(best song-title-word similarity, 0.8 * best game-title-word similarity)
SubScore(song, keyword) ==
    RatMax(BestSimilarity(keyword, song.title),
           RatMul(<<8, 10>>, BestSimilarity(keyword, song.game.title)))

\* what a keyword adds to the score of a song: its sub-score, or 0 for a
\* sub-score below 0.7 (from 0.7 down when strict)
Contribution(song, keyword, strict) ==
    LET sub == SubScore(song, keyword)
        noise == IF strict THEN ~RatLess(<<7, 10>>, sub) ELSE RatLess(sub, <<7, 10>>)
    IN  IF noise THEN <<0, 1>> ELSE sub

RECURSIVE SumOfContributions(_, _, _, _)
SumOfContributions(song, keywords, strict, n) ==
    IF n = 0 THEN <<0, 1>>
    ELSE RatAdd(SumOfContributions(song, keywords, strict, n - 1),
                Contribution(song, keywords[n], strict))

\* the aggregate score: the contributions of the keywords over their number
AggregateScore(song, keywords, strict) ==
    RatMul(SumOfContributions(song, keywords, strict, Len(keywords)), <<1, Len(keywords)>>)

\* the last call was a search with at least one keyword over a catalog whose
\* song titles and game titles have a word each
SearchedWithKeywords ==
    /\ call.name = "search"
    /\ call.args[1] # <<>>
    /\ \A k \in DOMAIN songs :
           Words(songs[k].title) # {} /\ Words(songs[k].game.title) # {}

\* the result holds exactly the songs that score above the cutoff, once each,
\* with their scores, highest first, every score in [0, 1]
ResultIsRanking(strict) ==
    LET keywords == call.args[1]
        cutoff == call.args[2]
    IN  /\ raised = "none"
        /\ \A k \in DOMAIN songs :
               RatLess(cutoff, AggregateScore(songs[k], keywords, strict))
                   <=> \E i \in DOMAIN result : result[i][1] = songs[k]
        /\ \A i \in DOMAIN result :
               /\ \E k \in DOMAIN songs : result[i][1] = songs[k]
               /\ RatEq(result[i][2], AggregateScore(result[i][1], keywords, strict))
               /\ 0 <= result[i][2][1] /\ result[i][2][1] <= result[i][2][2]
        /\ \A i, j \in DOMAIN result :
               i < j => (result[i][1] # result[j][1] /\ ~RatLess(result[i][2], result[j][2]))

\* C4: a search with an empty keyword list returns an empty sequence and raises
\* nothing, whatever the catalog.
C4_EmptyKeywordsEmptyResult ==
    (call.name = "search" /\ call.args[1] = <<>>) => (raised = "none" /\ result = <<>>)

-----------------------------------------------------------------------------
(* The legacy search(songid): what the claim speaks about *)

\* C2: for a song id that is no key of a catalog that is not empty, with r the
\* best ratio over the keys: below minimum_autocorrect_ratio NoMatchError and no
\* suggestion; from there to below minimum_match_ratio the error that carries the
\* best key as a suggestion, and no song; from minimum_match_ratio on the song
\* stored under the best key.
C2_ThreeTiers ==
    (/\ call.name = "search"
     /\ call.args[1] \notin DOMAIN songs
     /\ DOMAIN songs # {}
     /\ RatLess(minimum_autocorrect_ratio, minimum_match_ratio)) =>
        LET songid == call.args[1]
            ratios == { Ratio(songid, k) : k \in DOMAIN songs }
            r == CHOOSE p \in ratios : \A q \in ratios : ~RatLess(p, q)
            best == { k \in DOMAIN songs : RatEq(Ratio(songid, k), r) }
        IN  /\ RatLess(r, minimum_autocorrect_ratio) =>
                (raised = "NoMatchError" /\ result.suggestion = {} /\ result.song = {})
            /\ (~RatLess(r, minimum_autocorrect_ratio) /\ RatLess(r, minimum_match_ratio)) =>
                (/\ raised = "BadMatchError"
                 /\ result.suggestion # {}
                 /\ result.suggestion \subseteq best
                 /\ result.song = {})
            /\ ~RatLess(r, minimum_match_ratio) =>
                (raised = "none" /\ \E k \in best : result.song = {songs[k]})

====
